---- MODULE Spec2Model ----
(***************************************************************************)
(* A model of pandana/pandana.py: the module globals MAX_NUM_NETWORKS and  *)
(* NUM_NETWORKS, the Network class (its graph_no, impedance_names and      *)
(* variable_names) and the calls each method issues to the _pyaccess       *)
(* engine.  The engine itself (range cache, nearest-node mapping and the   *)
(* nearest-facility search) is not part of pandana.py; where a property    *)
(* depends on it, it is modelled from the design document.                 *)
(***************************************************************************)
EXTENDS Integers, Sequences, FiniteSets, Bags, TLC

VARIABLES
    MAX_NUM_NETWORKS,   \* module global, pandana.py:10
    NUM_NETWORKS,       \* module global, pandana.py:11
    networks,           \* the Network objects whose constructor returned
    CAT_NAME_TO_IND,    \* module global used by the POI methods
    declared,           \* engine: {<<graph, count>>} slot-count declarations
    calls,              \* the _pyaccess calls issued by the last operation
    op,                 \* the last operation, its arguments and its outcome
    graphs,             \* engine: the graph stored in each slot
    range_cache,        \* engine: the range cache of each slot
    answer,             \* engine: the reachable sets the last query used
    map_in,             \* the arguments of the last get_node_ids
    map_out,            \* the Series the last get_node_ids returned
    poi_requested,      \* the arguments of the last initialize_pois
    poi_config,         \* engine: the POI configuration
    facilities,         \* engine: the bag of nodes holding a facility
    poi_distance,       \* engine: the distance of the running search
    pq,                 \* engine: the bag of labels <<distance, node>>
    accepted,           \* engine: the distances each node has accepted
    poi_pc              \* engine: "idle", "searching" or "done"

\* The engine state that only some specifications use
rangeVars == <<graphs, range_cache, answer>>

mapVars == <<map_in, map_out>>

poiVars == <<poi_requested, poi_config, facilities, poi_distance, pq,
             accepted, poi_pc>>

engineVars == <<rangeVars, mapVars, poiVars>>

vars == <<MAX_NUM_NETWORKS, NUM_NETWORKS, networks, CAT_NAME_TO_IND,
          declared, calls, op, engineVars>>

-----------------------------------------------------------------------------
(* Bounds of the model *)

MaxCap == 2          \* largest capacity passed to reserve_num_graphs

-----------------------------------------------------------------------------
(* Strings whose characters matter (the selectors of aggregate) are        *)
(* sequences of one-character strings, so that str.upper() is computed.    *)

LowerChars == <<"a","b","c","d","e","f","g","h","i","j","k","l","m",
                "n","o","p","q","r","s","t","u","v","w","x","y","z">>
UpperChars == <<"A","B","C","D","E","F","G","H","I","J","K","L","M",
                "N","O","P","Q","R","S","T","U","V","W","X","Y","Z">>

ToUpper == [c \in {LowerChars[i] : i \in 1..Len(LowerChars)} |->
               UpperChars[CHOOSE i \in 1..Len(LowerChars) : LowerChars[i] = c]]

ToLower == [c \in {UpperChars[i] : i \in 1..Len(UpperChars)} |->
               LowerChars[CHOOSE i \in 1..Len(UpperChars) : UpperChars[i] = c]]

upper_char(c) == IF c \in DOMAIN ToUpper THEN ToUpper[c] ELSE c

lower_char(c) == IF c \in DOMAIN ToLower THEN ToLower[c] ELSE c

\* str.upper()
upper(s) == [i \in 1..Len(s) |-> upper_char(s[i])]

s_sum == <<"s","u","m">>
s_ave == <<"a","v","e">>
s_std == <<"s","t","d">>
s_count == <<"c","o","u","n","t">>
s_linear == <<"l","i","n","e","a","r">>
s_exponential == <<"e","x","p","o","n","e","n","t","i","a","l">>
s_flat == <<"f","l","a","t">>
s_exp == <<"e","x","p">>

\* AGGREGATIONS, pandana.py:13-18
AGGREGATIONS ==
    (upper(s_sum) :> 0) @@ (upper(s_ave) :> 1) @@
    (upper(s_std) :> 5) @@ (upper(s_count) :> 6)

\* DECAYS, pandana.py:20-24
DECAYS ==
    (upper(s_exp) :> 0) @@ (upper(s_linear) :> 1) @@ (upper(s_flat) :> 2)

-----------------------------------------------------------------------------
(* Python list helpers *)

InList(l, x) == \E i \in 1..Len(l) : l[i] = x

\* list.index(x), 0-based; only used when x is in l
ListIndex(l, x) == (CHOOSE i \in 1..Len(l) : l[i] = x /\ \A j \in 1..(i-1) : l[j] # x) - 1

\* The value None of an optional string argument
None == "<None>"

Call(fn, args) == [fn |-> fn, args |-> args]

NoOp == [name |-> "", nw |-> 0, err |-> "", num |-> 0, type |-> <<>>,
         decay |-> <<>>, imp_name |-> None, var |-> None, distance |-> 0,
         rejected |-> FALSE]

-----------------------------------------------------------------------------
(* reserve_num_graphs, pandana.py:27-33.  Given the value of the global    *)
(* MAX_NUM_NETWORKS and the argument, the outcome of the call.             *)

reserve_num_graphs_twice(max, num) ==
    IF ~(num > 0)
    THEN [err |-> "AssertionError", MAX_NUM_NETWORKS |-> max, calls |-> <<>>]
    ELSE [err |-> "", MAX_NUM_NETWORKS |-> num,
          calls |-> <<Call("create_graphs", <<num>>)>>]

reserve_num_graphs(max, num) ==
    IF max # 0
    THEN [err |-> "AssertionError", MAX_NUM_NETWORKS |-> max, calls |-> <<>>]
    ELSE IF ~(num > 0)
    THEN [err |-> "AssertionError", MAX_NUM_NETWORKS |-> max, calls |-> <<>>]
    ELSE [err |-> "", MAX_NUM_NETWORKS |-> num,
          calls |-> <<Call("create_graphs", <<num>>)>>]

Reserve(num) ==
    LET r == reserve_num_graphs(MAX_NUM_NETWORKS, num) IN
    /\ MAX_NUM_NETWORKS' = r.MAX_NUM_NETWORKS
    /\ calls' = r.calls
    /\ op' = [NoOp EXCEPT !.name = "reserve_num_graphs", !.num = num, !.err = r.err]
    /\ UNCHANGED <<NUM_NETWORKS, networks, CAT_NAME_TO_IND, declared, engineVars>>

-----------------------------------------------------------------------------
(* Network.__init__, pandana.py:109-141 *)

ImpNameLists == {<<>>, <<"dist">>, <<"dist", "time">>}

\* The arguments of the constructor that the model keeps: the lengths of
\* the coordinate arrays, the impedance columns and the edge weight.
GraphInputs ==
    [nx : {1, 2}, ny : {1, 2}, imps : ImpNameLists, weight : {-1, 0, 1}]

\* createGraph of the engine: rejects inconsistent array lengths and
\* negative weights.
create_graph_rejects(inp) == inp.nx # inp.ny \/ inp.weight < 0

\* The slot given to the new Network, pandana.py:116
graph_no_of(num) == num

\* The guard of pandana.py:114
has_free_slot_off_by_one(num, max) == num <= max

has_free_slot(num, max) == num < max

NetworkInit(inp) ==
    LET r == IF MAX_NUM_NETWORKS = 0
             THEN reserve_num_graphs(MAX_NUM_NETWORKS, 1)
             ELSE [err |-> "", MAX_NUM_NETWORKS |-> MAX_NUM_NETWORKS, calls |-> <<>>]
        base == [NoOp EXCEPT !.name = "Network"]
    IN
    /\ MAX_NUM_NETWORKS' = r.MAX_NUM_NETWORKS
    /\ UNCHANGED <<CAT_NAME_TO_IND, declared, engineVars>>
    /\ IF r.err # "" \/ ~has_free_slot(NUM_NETWORKS, r.MAX_NUM_NETWORKS)
       THEN /\ calls' = r.calls
            /\ op' = [base EXCEPT !.err = "AssertionError"]
            /\ UNCHANGED <<NUM_NETWORKS, networks>>
       ELSE LET g == graph_no_of(NUM_NETWORKS) IN
            /\ NUM_NETWORKS' = NUM_NETWORKS + 1
            /\ calls' = r.calls \o <<Call("create_graph", <<g>>)>>
            /\ IF create_graph_rejects(inp)
               THEN /\ op' = [base EXCEPT !.err = "InvalidArgument", !.rejected = TRUE]
                    /\ UNCHANGED networks
               ELSE /\ op' = [base EXCEPT !.nw = Len(networks) + 1]
                    /\ networks' = Append(networks,
                           [graph_no |-> g,
                            impedance_names |-> inp.imps,
                            variable_names |-> <<>>])

-----------------------------------------------------------------------------
(* Network.set, pandana.py:176-203.  The rows of the data are not part of  *)
(* the model; the method's effect on variable_names and the engine calls   *)
(* it issues are.                                                          *)

VarNames == {"tmp", "pop"}

\* pandana.py:191-194: the slot-count declaration of a name
declare_count_before_append(variable_names, graph_no, name) ==
    IF ~InList(variable_names, name)
    THEN [variable_names |-> Append(variable_names, name),
          calls |-> <<Call("initialize_acc_vars",
                           <<graph_no, Len(variable_names)>>)>>]
    ELSE [variable_names |-> variable_names, calls |-> <<>>]

declare_variable(variable_names, graph_no, name) ==
    IF ~InList(variable_names, name)
    THEN [variable_names |-> Append(variable_names, name),
          calls |-> <<Call("initialize_acc_vars",
                           <<graph_no, Len(Append(variable_names, name))>>)>>]
    ELSE [variable_names |-> variable_names, calls |-> <<>>]

\* pandana.py:199-202: the write of the variable's values
write_variable(variable_names, graph_no, name) ==
    <<Call("initialize_acc_var", <<graph_no, ListIndex(variable_names, name)>>)>>

\* The declarations among a sequence of engine calls
Declarations(cs) ==
    {<<cs[i].args[1], cs[i].args[2]>> :
        i \in {j \in 1..Len(cs) : cs[j].fn = "initialize_acc_vars"}}

Set(n, name) ==
    LET self == networks[n]
        d == declare_variable(self.variable_names, self.graph_no, name)
        w == write_variable(d.variable_names, self.graph_no, name)
    IN
    /\ networks' = [networks EXCEPT ![n].variable_names = d.variable_names]
    /\ calls' = d.calls \o w
    /\ declared' = declared \cup Declarations(d.calls)
    /\ op' = [NoOp EXCEPT !.name = "set", !.nw = n, !.var = name]
    /\ UNCHANGED <<MAX_NUM_NETWORKS, NUM_NETWORKS, CAT_NAME_TO_IND, engineVars>>

-----------------------------------------------------------------------------
(* Network.precompute, pandana.py:220 *)

MaxDist == 2         \* largest distance passed to precompute and aggregate

Distances == 1..MaxDist

precompute(self, distance) ==
    <<Call("precompute_range", <<distance, self.graph_no>>)>>

Precompute(n, distance) ==
    /\ calls' = precompute(networks[n], distance)
    /\ op' = [NoOp EXCEPT !.name = "precompute", !.nw = n, !.distance = distance]
    /\ UNCHANGED <<MAX_NUM_NETWORKS, NUM_NETWORKS, networks, CAT_NAME_TO_IND,
                   declared, engineVars>>

-----------------------------------------------------------------------------
(* Network.aggregate, pandana.py:263-288 *)

s_min == <<"m","i","n">>
s_none == <<"n","o","n","e">>

TypeInputs == {s_sum, upper(s_ave), <<"S","t","d">>, s_count, s_min}

DecayInputs == {s_linear, <<"F","l","a","t">>, s_exponential, upper(s_exp), s_none}

ImpInputs == {None, "dist", "time", "cost"}

Failed(e) == [err |-> e, calls |-> <<>>]

\* pandana.py:266-273: the impedance the call uses, or the failed assert
impedance_first_when_missing(self, imp_name) ==
    LET name == IF imp_name = None /\ Len(self.impedance_names) >= 1
                THEN self.impedance_names[1] ELSE imp_name
    IN IF ~InList(self.impedance_names, name)
       THEN [err |-> "AssertionError", imp_num |-> -1]
       ELSE [err |-> "", imp_num |-> ListIndex(self.impedance_names, name)]

impedance(self, imp_name) ==
    IF imp_name = None /\ Len(self.impedance_names) # 1
    THEN [err |-> "AssertionError", imp_num |-> -1]
    ELSE LET name == IF imp_name = None THEN self.impedance_names[1]
                     ELSE imp_name
         IN IF ~InList(self.impedance_names, name)
            THEN [err |-> "AssertionError", imp_num |-> -1]
            ELSE [err |-> "", imp_num |-> ListIndex(self.impedance_names, name)]

aggregate_precomputes(self, distance, type, decay, imp_name, name) ==
    LET TYPE == upper(type)
        DECAY == upper(decay)
    IN
    IF TYPE \notin DOMAIN AGGREGATIONS THEN Failed("KeyError")
    ELSE IF DECAY \notin DOMAIN DECAYS THEN Failed("KeyError")
    ELSE LET imp == impedance(self, imp_name) IN
         IF imp.err # "" THEN Failed(imp.err)
         ELSE IF ~InList(self.variable_names, name) THEN Failed("AssertionError")
         ELSE [err |-> "",
               calls |-> <<Call("precompute_range", <<distance, self.graph_no>>),
                           Call("get_all_aggregate_accessibility_variables",
                                <<distance,
                                  ListIndex(self.variable_names, name),
                                  AGGREGATIONS[TYPE],
                                  DECAYS[DECAY],
                                  self.graph_no,
                                  imp.imp_num>>)>>]

aggregate(self, distance, type, decay, imp_name, name) ==
    LET TYPE == upper(type)
        DECAY == upper(decay)
    IN
    IF TYPE \notin DOMAIN AGGREGATIONS THEN Failed("KeyError")
    ELSE IF DECAY \notin DOMAIN DECAYS THEN Failed("KeyError")
    ELSE LET imp == impedance(self, imp_name) IN
         IF imp.err # "" THEN Failed(imp.err)
         ELSE IF ~InList(self.variable_names, name) THEN Failed("AssertionError")
         ELSE [err |-> "",
               calls |-> <<Call("get_all_aggregate_accessibility_variables",
                                <<distance,
                                  ListIndex(self.variable_names, name),
                                  AGGREGATIONS[TYPE],
                                  DECAYS[DECAY],
                                  self.graph_no,
                                  imp.imp_num>>)>>]

Aggregate(n, distance, type, decay, imp_name, name) ==
    LET r == aggregate(networks[n], distance, type, decay, imp_name, name) IN
    /\ calls' = r.calls
    /\ op' = [NoOp EXCEPT !.name = "aggregate", !.nw = n, !.err = r.err,
                          !.type = type, !.decay = decay,
                          !.imp_name = imp_name, !.var = name]
    /\ UNCHANGED <<MAX_NUM_NETWORKS, NUM_NETWORKS, networks, CAT_NAME_TO_IND,
                   declared, engineVars>>

-----------------------------------------------------------------------------
(* The POI methods, pandana.py:350-367.  pandana.py never assigns the      *)
(* global CAT_NAME_TO_IND, so every evaluation of that name raises         *)
(* NameError; `defined` records whether the name is bound.                 *)

Categories == {"cafes", "schools"}

initialize_poi_category(cat_name_to_ind, category) ==
    IF ~cat_name_to_ind.defined
    THEN [err |-> "NameError", CAT_NAME_TO_IND |-> cat_name_to_ind, calls |-> <<>>]
    ELSE LET names == IF ~InList(cat_name_to_ind.names, category)
                      THEN Append(cat_name_to_ind.names, category)
                      ELSE cat_name_to_ind.names
         IN [err |-> "",
             CAT_NAME_TO_IND |-> [cat_name_to_ind EXCEPT !.names = names],
             calls |-> <<Call("initialize_category",
                              <<ListIndex(names, category)>>)>>]

InitializePoiCategory(n, category) ==
    LET r == initialize_poi_category(CAT_NAME_TO_IND, category) IN
    /\ CAT_NAME_TO_IND' = r.CAT_NAME_TO_IND
    /\ calls' = r.calls
    /\ op' = [NoOp EXCEPT !.name = "initialize_poi_category", !.nw = n,
                          !.err = r.err, !.var = category]
    /\ UNCHANGED <<MAX_NUM_NETWORKS, NUM_NETWORKS, networks, declared, engineVars>>

compute_nearest_pois(cat_name_to_ind, distance, category) ==
    IF ~cat_name_to_ind.defined THEN Failed("NameError")
    ELSE IF ~InList(cat_name_to_ind.names, category) THEN Failed("AssertionError")
    ELSE [err |-> "",
          calls |-> <<Call("find_all_nearest_pois",
                           <<distance, ListIndex(cat_name_to_ind.names, category)>>)>>]

ComputeNearestPois(n, distance, category) ==
    LET r == compute_nearest_pois(CAT_NAME_TO_IND, distance, category) IN
    /\ calls' = r.calls
    /\ op' = [NoOp EXCEPT !.name = "compute_nearest_pois", !.nw = n,
                          !.err = r.err, !.var = category]
    /\ UNCHANGED <<MAX_NUM_NETWORKS, NUM_NETWORKS, networks, CAT_NAME_TO_IND,
                   declared, engineVars>>

-----------------------------------------------------------------------------
(* The engine's graphs.  A graph has the coordinates of its nodes (node i  *)
(* is xy[i + 1]) and its directed arcs <<from, to, weight>>.               *)

\* createGraph: one arc per edge, and the reverse arc too when twoway
createGraph(xy, edges, twoway) ==
    [xy |-> xy,
     arcs |-> edges \cup (IF twoway THEN {<<e[2], e[1], e[3]>> : e \in edges}
                          ELSE {})]

EngineGraphs ==
    { createGraph(<<<<0, 0>>, <<1, 0>>, <<2, 0>>>>, {<<0, 1, 1>>, <<1, 2, 1>>}, TRUE),
      createGraph(<<<<0, 0>>, <<2, 0>>>>, {<<0, 1, 2>>}, FALSE),
      createGraph(<<<<0, 0>>, <<0, 1>>, <<2, 1>>>>, {<<0, 1, 0>>, <<1, 2, 3>>, <<0, 2, 1>>}, TRUE) }

NodesOf(g) == 0..(Len(g.xy) - 1)

-----------------------------------------------------------------------------
(* The engine's range queries and their cache.  A reachable set is a set   *)
(* of <<target, distance>>.  A cache is [cutoff, sets]; cutoff 0 is the    *)
(* empty cache.                                                            *)

NoCache == [cutoff |-> 0, sets |-> <<>>]

NoAnswer == [graph |-> -1, sets |-> <<>>, recomputed |-> FALSE]

\* A label of least distance in a non-empty set of labels <<node, distance>>
MinLabel(frontier) ==
    CHOOSE l \in frontier :
        \A m \in frontier : l[2] < m[2] \/ (l[2] = m[2] /\ l[1] <= m[1])

\* The cutoff-bounded label-setting search: settle the label of least
\* tentative distance until the frontier is empty or beyond the cutoff.
RECURSIVE Dijkstra(_, _, _, _)
Dijkstra(g, cutoff, settled, frontier) ==
    IF frontier = {} THEN settled
    ELSE LET l == MinLabel(frontier) IN
         IF l[2] > cutoff THEN settled
         ELSE IF \E t \in settled : t[1] = l[1]
         THEN Dijkstra(g, cutoff, settled, frontier \ {l})
         ELSE Dijkstra(g, cutoff, settled \cup {l},
                       (frontier \ {l}) \cup
                       {<<a[2], l[2] + a[3]>> : a \in {b \in g.arcs : b[1] = l[1]}})

Range(g, source, cutoff) == Dijkstra(g, cutoff, {}, {<<source, 0>>})

Trim(set, cutoff) == {t \in set : t[2] <= cutoff}

\* precompute(graph, cutoff): overwrites the graph's cache; a cutoff <= 0
\* is rejected.
precomputeRange(cache, g, cutoff) ==
    IF cutoff <= 0 THEN cache
    ELSE [cutoff |-> cutoff, sets |-> [i \in 1..Len(g.xy) |-> Range(g, i - 1, cutoff)]]

\* query(graph, source, cutoff): the cached set trimmed to the cutoff when
\* the cache covers it, a search for that source alone otherwise.
query(cache, g, source, cutoff) ==
    IF cutoff <= cache.cutoff
    THEN [set |-> Trim(cache.sets[source + 1], cutoff), recomputed |-> FALSE]
    ELSE [set |-> Range(g, source, cutoff), recomputed |-> TRUE]

\* The engine's state after one call: st is [cache, answer], the caches of
\* all slots and the last answer.
EngineCall(st, c) ==
    IF c.fn = "precompute_range"
    THEN LET gno == c.args[2] IN
         [st EXCEPT !.cache[gno + 1] =
                      precomputeRange(st.cache[gno + 1], graphs[gno + 1], c.args[1])]
    ELSE IF c.fn = "get_all_aggregate_accessibility_variables"
    THEN LET gno == c.args[5]
             g == graphs[gno + 1]
             d == c.args[1]
         IN IF d <= 0 THEN st
            ELSE [st EXCEPT !.answer =
                    [graph |-> gno,
                     sets |-> [i \in 1..Len(g.xy) |->
                                 query(st.cache[gno + 1], g, i - 1, d).set],
                     recomputed |-> query(st.cache[gno + 1], g, 0, d).recomputed]]
    ELSE st

RECURSIVE EngineRun(_, _)
EngineRun(st, cs) ==
    IF cs = <<>> THEN st ELSE EngineRun(EngineCall(st, Head(cs)), Tail(cs))

\* Network.precompute and Network.aggregate with the engine's part
RangePrecompute(n, distance) ==
    LET cs == precompute(networks[n], distance)
        st == EngineRun([cache |-> range_cache, answer |-> NoAnswer], cs)
    IN
    /\ calls' = cs
    /\ range_cache' = st.cache
    /\ answer' = st.answer
    /\ op' = [NoOp EXCEPT !.name = "precompute", !.nw = n, !.distance = distance]
    /\ UNCHANGED <<MAX_NUM_NETWORKS, NUM_NETWORKS, networks, CAT_NAME_TO_IND,
                   declared, graphs, mapVars, poiVars>>

RangeAggregate(n, distance, imp_name, name) ==
    LET r == aggregate(networks[n], distance, s_sum, s_flat, imp_name, name)
        st == EngineRun([cache |-> range_cache, answer |-> NoAnswer], r.calls)
    IN
    /\ calls' = r.calls
    /\ range_cache' = st.cache
    /\ answer' = st.answer
    /\ op' = [NoOp EXCEPT !.name = "aggregate", !.nw = n, !.err = r.err,
                          !.type = s_sum, !.decay = s_flat,
                          !.imp_name = imp_name, !.var = name,
                          !.distance = distance]
    /\ UNCHANGED <<MAX_NUM_NETWORKS, NUM_NETWORKS, networks, CAT_NAME_TO_IND,
                   declared, graphs, mapVars, poiVars>>

\* The engine's query for one source
RangeQuery(gno, source, distance) ==
    LET q == query(range_cache[gno + 1], graphs[gno + 1], source, distance) IN
    /\ distance > 0
    /\ answer' = [graph |-> gno,
                  sets |-> [i \in {source + 1} |-> q.set],
                  recomputed |-> q.recomputed]
    /\ calls' = <<>>
    /\ op' = [NoOp EXCEPT !.name = "query", !.nw = gno + 1, !.distance = distance]
    /\ UNCHANGED <<MAX_NUM_NETWORKS, NUM_NETWORKS, networks, CAT_NAME_TO_IND,
                   declared, graphs, range_cache, mapVars, poiVars>>

-----------------------------------------------------------------------------
(* Network.get_node_ids, pandana.py:318-326.  A row of the x, y data is    *)
(* [idx, x, y]: its index label and its coordinates, each <<v>> or, when   *)
(* missing (NaN), <<>>.                                                    *)

MaxRows == 2         \* most rows passed to get_node_ids

Rows == [idx : {0}, x : {<<>>, <<0>>, <<3>>}, y : {<<>>, <<0>>}]

\* The x, y data: rows labelled 1, 2, ... in order
RowSeqs ==
    UNION {{[i \in 1..n |-> [f[i] EXCEPT !.idx = i]] : f \in [1..n -> Rows]} :
            n \in 0..MaxRows}

MappingDistances == {-1} \cup 0..MaxDist

\* pandana.py:318: DataFrame.dropna(how='any')
dropna(rows) == SelectSeq(rows, LAMBDA r : r.x # <<>> /\ r.y # <<>>)

\* The squared distance of node n of g from the point <<x, y>>
Dist2(g, n, pt) ==
    (g.xy[n + 1][1] - pt[1]) * (g.xy[n + 1][1] - pt[1]) +
    (g.xy[n + 1][2] - pt[2]) * (g.xy[n + 1][2] - pt[2])

\* nearestNode: the results the engine can give for one point: a closest
\* node, or -1 when a threshold is given and the closest node is beyond it
nearestNode(g, pt, maxMappingDistance) ==
    LET closest == {n \in NodesOf(g) :
                       \A m \in NodesOf(g) : Dist2(g, n, pt) <= Dist2(g, m, pt)}
    IN IF maxMappingDistance = -1 THEN closest
       ELSE {IF Dist2(g, n, pt) > maxMappingDistance * maxMappingDistance
             THEN -1 ELSE n : n \in closest}

\* mapToNearestNode: the arrays the engine can return for the points
xy_to_node(g, xys, mapping_distance) ==
    {ids \in [1..Len(xys) -> NodesOf(g) \cup {-1}] :
        \A i \in 1..Len(xys) :
           ids[i] \in nearestNode(g, <<xys[i].x[1], xys[i].y[1]>>, mapping_distance)}

\* pandana.py:325-326: the Series over the index of xys, without the -1s
matched_unfiltered(xys, node_ids) ==
    [i \in 1..Len(xys) |-> <<xys[i].idx, node_ids[i]>>]

matched(xys, node_ids) ==
    SelectSeq([i \in 1..Len(xys) |-> <<xys[i].idx, node_ids[i]>>],
              LAMBDA e : e[2] # -1)

\* get_node_ids on the arguments that map_in holds
GetNodeIds(n) ==
    LET rows == map_in.rows
        mapping_distance == map_in.mapping_distance
        xys == dropna(rows)
        gno == networks[n].graph_no
    IN
    /\ op.name # "get_node_ids"
    /\ \E node_ids \in xy_to_node(graphs[gno + 1], xys, mapping_distance) :
          map_out' = matched(xys, node_ids)
    /\ calls' = <<Call("xy_to_node", <<mapping_distance, gno>>)>>
    /\ op' = [NoOp EXCEPT !.name = "get_node_ids", !.nw = n]
    /\ UNCHANGED <<MAX_NUM_NETWORKS, NUM_NETWORKS, networks, CAT_NAME_TO_IND,
                   declared, rangeVars, poiVars, map_in>>

-----------------------------------------------------------------------------
(* The POI index.  Network.initialize_pois, pandana.py:350-351, passes the *)
(* configuration to the engine; the engine keeps the facilities of the     *)
(* category and runs the nearest-facility search.                          *)

MaxItems == 2        \* largest maxitems passed to initialize_pois
MaxPoints == 2       \* most points of a category

initialize_pois_swapped(numcategories, maxdist, maxitems) ==
    <<Call("initialize_pois", <<numcategories, maxitems, maxdist>>)>>

initialize_pois(numcategories, maxdist, maxitems) ==
    <<Call("initialize_pois", <<numcategories, maxdist, maxitems>>)>>

\* The queue and the lists of a search live for that search: the lists are
\* its result, and the next call on the index starts without them.
SearchDropped ==
    /\ poi_distance' = 0
    /\ pq' = EmptyBag
    /\ accepted' = <<>>
    /\ poi_pc' = "idle"

\* configure(numCategories, maxSearchDistance, maxItems)
configure(c) ==
    [numCategories |-> c.args[1], maxSearchDistance |-> c.args[2],
     maxItems |-> c.args[3]]

InitializePois(n, numcategories, maxdist, maxitems) ==
    LET cs == initialize_pois(numcategories, maxdist, maxitems) IN
    /\ poi_pc # "searching"
    /\ calls' = cs
    /\ poi_requested' = [maxdist |-> maxdist, maxitems |-> maxitems]
    /\ poi_config' = configure(cs[1])
    /\ SearchDropped
    /\ op' = [NoOp EXCEPT !.name = "initialize_pois", !.nw = n]
    /\ UNCHANGED <<MAX_NUM_NETWORKS, NUM_NETWORKS, networks, CAT_NAME_TO_IND,
                   declared, rangeVars, mapVars, facilities>>

Points == {<<0, 0>>, <<3, 0>>}

PointSeqs == UNION {[1..n -> Points] : n \in 0..MaxPoints}

\* The bag of the elements of a sequence
RECURSIVE SeqToBag(_)
SeqToBag(q) ==
    IF q = <<>> THEN EmptyBag ELSE SetToBag({Head(q)}) (+) SeqToBag(Tail(q))

\* setCategory(categoryIndex, points): replaces the category's points, each
\* snapped to its nearest node
SetCategory(points) ==
    /\ poi_pc # "searching"
    /\ poi_config # <<>>
    /\ \E node_ids \in xy_to_node(graphs[1],
                                  [i \in 1..Len(points) |->
                                     [idx |-> i, x |-> <<points[i][1]>>,
                                      y |-> <<points[i][2]>>]], -1) :
          facilities' = SeqToBag(node_ids)
    /\ SearchDropped
    /\ calls' = <<>>
    /\ op' = [NoOp EXCEPT !.name = "setCategory"]
    /\ UNCHANGED <<MAX_NUM_NETWORKS, NUM_NETWORKS, networks, CAT_NAME_TO_IND,
                   declared, rangeVars, mapVars, poi_requested, poi_config>>

\* nearestFacilities(graph, categoryIndex, distance): fails when the
\* distance is <= 0; otherwise seeds the queue with every facility at
\* distance 0.
NearestFacilities(distance) ==
    /\ poi_pc # "searching"
    /\ poi_config # <<>>
    /\ calls' = <<>>
    /\ IF distance <= 0
       THEN /\ op' = [NoOp EXCEPT !.name = "nearestFacilities",
                                  !.err = "InvalidArgument", !.distance = distance]
            /\ SearchDropped
       ELSE /\ op' = [NoOp EXCEPT !.name = "nearestFacilities",
                                  !.distance = distance]
            /\ poi_distance' = distance
            /\ pq' = [l \in {<<0, v>> : v \in BagToSet(facilities)} |->
                        CopiesIn(l[2], facilities)]
            /\ accepted' = [i \in 1..Len(graphs[1].xy) |-> <<>>]
            /\ poi_pc' = "searching"
    /\ UNCHANGED <<MAX_NUM_NETWORKS, NUM_NETWORKS, networks, CAT_NAME_TO_IND,
                   declared, rangeVars, mapVars, poi_requested, poi_config,
                   facilities>>

\* The bound of the search
SearchBound(distance, config) ==
    IF distance < config.maxSearchDistance THEN distance
    ELSE config.maxSearchDistance

\* One label of least distance leaves the queue.  Beyond the bound it ends
\* the search; otherwise its node accepts it while it holds fewer than
\* maxItems labels, and passes it on to its neighbours with the arc's cost
\* added.
SearchStep ==
    /\ poi_pc = "searching"
    /\ pq # EmptyBag
    /\ \E l \in BagToSet(pq) :
         /\ \A m \in BagToSet(pq) : l[1] <= m[1]
         /\ LET d == l[1]
                v == l[2]
                rest == pq (-) SetToBag({l})
            IN IF d > SearchBound(poi_distance, poi_config)
               THEN /\ pq' = EmptyBag
                    /\ poi_pc' = "done"
                    /\ UNCHANGED accepted
               ELSE IF Len(accepted[v + 1]) < poi_config.maxItems
               THEN /\ accepted' = [accepted EXCEPT ![v + 1] = Append(@, d)]
                    /\ pq' = rest (+) SetToBag({<<d + a[3], a[2]>> :
                                         a \in {b \in graphs[1].arcs : b[1] = v}})
                    /\ UNCHANGED poi_pc
               ELSE /\ pq' = rest
                    /\ UNCHANGED <<accepted, poi_pc>>
    /\ UNCHANGED <<MAX_NUM_NETWORKS, NUM_NETWORKS, networks, CAT_NAME_TO_IND,
                   declared, calls, op, rangeVars, mapVars, poi_requested,
                   poi_config, facilities, poi_distance>>

\* The queue is empty: the search returns.
SearchReturn ==
    /\ poi_pc = "searching"
    /\ pq = EmptyBag
    /\ poi_pc' = "done"
    /\ UNCHANGED <<MAX_NUM_NETWORKS, NUM_NETWORKS, networks, CAT_NAME_TO_IND,
                   declared, calls, op, rangeVars, mapVars, poi_requested,
                   poi_config, facilities, poi_distance, pq, accepted>>

-----------------------------------------------------------------------------

\* The engine state of the specifications that do not look into the engine
RangeUnused ==
    /\ range_cache = <<>>
    /\ answer = <<>>

MapUnused ==
    /\ map_in = <<>>
    /\ map_out = <<>>

PoiUnused ==
    /\ poi_requested = <<>>
    /\ poi_config = <<>>
    /\ facilities = EmptyBag
    /\ poi_distance = 0
    /\ pq = EmptyBag
    /\ accepted = <<>>
    /\ poi_pc = "idle"

EngineUnused ==
    /\ graphs = <<>>
    /\ RangeUnused
    /\ MapUnused
    /\ PoiUnused

Init ==
    /\ MAX_NUM_NETWORKS = 0
    /\ NUM_NETWORKS = 0
    /\ networks = <<>>
    /\ CAT_NAME_TO_IND = [defined |-> FALSE, names |-> <<>>]
    /\ declared = {}
    /\ calls = <<>>
    /\ op = NoOp
    /\ EngineUnused

\* The graph registry: reserve_num_graphs, the construction of Networks
\* and set on the constructed Networks.
Next ==
    \/ \E num \in -1..MaxCap : Reserve(num)
    \/ \E inp \in GraphInputs : NetworkInit(inp)
    \/ \E n \in 1..Len(networks), name \in VarNames : Set(n, name)

Spec == Init /\ [][Next]_vars

\* Two Networks, constructed with any of the impedance lists, and every
\* call of set, precompute and aggregate (with the default selectors
\* type="sum", decay="linear") on them.
InitVars ==
    /\ MAX_NUM_NETWORKS = 2
    /\ NUM_NETWORKS = 2
    /\ \E imps0, imps1 \in ImpNameLists :
         networks = <<[graph_no |-> 0, impedance_names |-> imps0,
                       variable_names |-> <<>>],
                      [graph_no |-> 1, impedance_names |-> imps1,
                       variable_names |-> <<>>]>>
    /\ CAT_NAME_TO_IND = [defined |-> FALSE, names |-> <<>>]
    /\ declared = {}
    /\ calls = <<>>
    /\ op = NoOp
    /\ EngineUnused

NextVars ==
    \/ \E n \in 1..Len(networks), name \in VarNames : Set(n, name)
    \/ \E n \in 1..Len(networks), d \in Distances : Precompute(n, d)
    \/ \E n \in 1..Len(networks), d \in Distances, imp_name \in ImpInputs,
          name \in VarNames :
            Aggregate(n, d, s_sum, s_linear, imp_name, name)

SpecVars == InitVars /\ [][NextVars]_vars

\* One Network, constructed with any of the impedance lists, and every
\* call of set, precompute, aggregate and the POI methods on it.
InitAgg ==
    /\ MAX_NUM_NETWORKS = 1
    /\ NUM_NETWORKS = 1
    /\ \E imps \in ImpNameLists :
         networks = <<[graph_no |-> 0, impedance_names |-> imps,
                       variable_names |-> <<>>]>>
    /\ CAT_NAME_TO_IND = [defined |-> FALSE, names |-> <<>>]
    /\ declared = {}
    /\ calls = <<>>
    /\ op = NoOp
    /\ EngineUnused

NextAgg ==
    \/ \E name \in VarNames : Set(1, name)
    \/ \E d \in Distances : Precompute(1, d)
    \/ \E d \in Distances, type \in TypeInputs, decay \in DecayInputs,
          imp_name \in ImpInputs, name \in VarNames :
            Aggregate(1, d, type, decay, imp_name, name)
    \/ \E category \in Categories : InitializePoiCategory(1, category)
    \/ \E d \in Distances, category \in Categories :
            ComputeNearestPois(1, d, category)

SpecAgg == InitAgg /\ [][NextAgg]_vars

\* Two Networks with one impedance and the variable "tmp" set, over any
\* two of the graphs, and every precompute, aggregate and query on them.
InitRange ==
    /\ MAX_NUM_NETWORKS = 2
    /\ NUM_NETWORKS = 2
    /\ networks = [i \in 1..2 |-> [graph_no |-> i - 1,
                                   impedance_names |-> <<"dist">>,
                                   variable_names |-> <<"tmp">>]]
    /\ CAT_NAME_TO_IND = [defined |-> FALSE, names |-> <<>>]
    /\ declared = {<<0, 1>>, <<1, 1>>}
    /\ calls = <<>>
    /\ op = NoOp
    /\ \E g0, g1 \in EngineGraphs : graphs = <<g0, g1>>
    /\ range_cache = <<NoCache, NoCache>>
    /\ answer = NoAnswer
    /\ MapUnused
    /\ PoiUnused

NextRange ==
    \/ \E n \in 1..Len(networks), d \in 0..MaxDist : RangePrecompute(n, d)
    \/ \E n \in 1..Len(networks), d \in 0..MaxDist, name \in VarNames :
            RangeAggregate(n, d, None, name)
    \/ \E gno \in 0..(Len(graphs) - 1), d \in 0..MaxDist :
          \E source \in NodesOf(graphs[gno + 1]) : RangeQuery(gno, source, d)

SpecRange == InitRange /\ [][NextRange]_vars

\* One Network over any of the graphs
InitOneNetwork ==
    /\ MAX_NUM_NETWORKS = 1
    /\ NUM_NETWORKS = 1
    /\ networks = <<[graph_no |-> 0, impedance_names |-> <<"dist">>,
                     variable_names |-> <<>>]>>
    /\ CAT_NAME_TO_IND = [defined |-> FALSE, names |-> <<>>]
    /\ declared = {}
    /\ calls = <<>>
    /\ op = NoOp
    /\ \E g \in EngineGraphs : graphs = <<g>>

\* get_node_ids on one Network, for every x, y data and mapping distance
InitMap ==
    /\ InitOneNetwork
    /\ RangeUnused
    /\ \E rows \in RowSeqs, md \in MappingDistances :
          map_in = [rows |-> rows, mapping_distance |-> md, graph_no |-> 0]
    /\ map_out = <<>>
    /\ PoiUnused

NextMap == GetNodeIds(1)

SpecMap == InitMap /\ [][NextMap]_vars

\* One Network over any of the graphs, and the POI index on it: its
\* configuration, the points of one category and the searches.
InitPOI ==
    /\ InitOneNetwork
    /\ RangeUnused
    /\ MapUnused
    /\ PoiUnused

NextPOI ==
    \/ \E maxdist \in 1..MaxDist, maxitems \in 0..MaxItems :
          InitializePois(1, 1, maxdist, maxitems)
    \/ \E points \in PointSeqs : SetCategory(points)
    \/ \E d \in 0..MaxDist : NearestFacilities(d)
    \/ SearchStep
    \/ SearchReturn

SpecPOI == InitPOI /\ [][NextPOI]_vars

\* The search is a loop of a blocking call: it keeps running until it
\* returns.
SpecPOIFair == SpecPOI /\ WF_vars(SearchStep \/ SearchReturn)

-----------------------------------------------------------------------------
(* Properties of the graph registry *)

\* C1: reserve_num_graphs succeeds only when no capacity is set yet and
\* the capacity is positive, and then sets it; a call made once a capacity
\* is set (by a reserve or by a Network construction) or with a capacity
\* <= 0 fails and changes neither the capacity nor the number of graphs.
C1_ReserveOnce ==
    [][op'.name = "reserve_num_graphs" =>
         /\ (op'.err = "" =>
               /\ MAX_NUM_NETWORKS = 0
               /\ op'.num > 0
               /\ MAX_NUM_NETWORKS' = op'.num)
         /\ (MAX_NUM_NETWORKS # 0 \/ op'.num <= 0 =>
               /\ op'.err # ""
               /\ MAX_NUM_NETWORKS' = MAX_NUM_NETWORKS
               /\ NUM_NETWORKS' = NUM_NETWORKS)]_vars

\* A reserve call that failed because a Network construction had already
\* set the capacity.
C1_Witness ==
    /\ op.name = "reserve_num_graphs"
    /\ op.err # ""
    /\ op.num > 0
    /\ MAX_NUM_NETWORKS = 1
    /\ Len(networks) = 1

\* C2: the number of created graphs never exceeds the capacity; every
\* Network holds a graph_no in 0..capacity-1 that no other Network holds and
\* that no operation changes; a construction attempted when all reserved
\* slots are used fails.
C2_SlotTable ==
    /\ [](/\ NUM_NETWORKS <= MAX_NUM_NETWORKS
          /\ \A i \in 1..Len(networks) :
               /\ networks[i].graph_no \in 0..(MAX_NUM_NETWORKS - 1)
               /\ \A j \in 1..Len(networks) :
                    i # j => networks[i].graph_no # networks[j].graph_no)
    /\ [][/\ \A i \in 1..Len(networks) :
               /\ i <= Len(networks')
               /\ networks'[i].graph_no = networks[i].graph_no
          /\ (/\ op'.name = "Network"
              /\ MAX_NUM_NETWORKS # 0
              /\ NUM_NETWORKS = MAX_NUM_NETWORKS)
             => /\ op'.err # ""
                /\ networks' = networks
                /\ NUM_NETWORKS' = NUM_NETWORKS]_vars

\* A construction that failed with every one of two reserved slots held by
\* a Network.
C2_Witness ==
    /\ op.name = "Network"
    /\ op.err = "AssertionError"
    /\ MAX_NUM_NETWORKS = 2
    /\ Len(networks) = 2
    /\ networks[2].graph_no = 1

\* C3: a construction rejected for invalid input (inconsistent array
\* lengths or a negative weight) leaves the capacity and the number of used
\* slots, which is the next slot index, as they were.
C3_NoPartialEffect ==
    [][op'.name = "Network" /\ op'.rejected =>
         /\ MAX_NUM_NETWORKS' = MAX_NUM_NETWORKS
         /\ NUM_NETWORKS' = NUM_NETWORKS]_vars

-----------------------------------------------------------------------------
(* Properties of the accessibility variables *)

\* The engine call at position k of cs writes or reads variable index
\* VarUse(c)[2] of graph VarUse(c)[1].
IsVarUse(c) ==
    c.fn \in {"initialize_acc_var", "get_all_aggregate_accessibility_variables"}

VarUse(c) ==
    IF c.fn = "initialize_acc_var" THEN <<c.args[1], c.args[2]>>
    ELSE <<c.args[5], c.args[2]>>

\* C10: a variable name keeps the index of its first use, distinct from
\* every other name's; every engine write or read of variable index i of a
\* graph comes after a slot-count declaration with count > i on that
\* graph; set with a known name declares nothing.
C10_VariableSlots ==
    /\ [](\A n \in 1..Len(networks) :
            \A i, j \in 1..Len(networks[n].variable_names) :
               i # j => networks[n].variable_names[i] # networks[n].variable_names[j])
    /\ [][/\ \A n \in 1..Len(networks) :
               LET old == networks[n].variable_names
                   new == networks'[n].variable_names
               IN /\ \A i \in 1..Len(old) : i <= Len(new) /\ new[i] = old[i]
                  /\ \A i \in (Len(old) + 1)..Len(new) :
                        /\ i = Len(old) + 1
                        /\ op'.name = "set" /\ op'.nw = n /\ op'.var = new[i]
          /\ \A k \in 1..Len(calls') :
               IsVarUse(calls'[k]) =>
                 \E d \in declared \cup Declarations(SubSeq(calls', 1, k - 1)) :
                    /\ d[1] = VarUse(calls'[k])[1]
                    /\ d[2] > VarUse(calls'[k])[2]
          /\ (/\ op'.name = "set"
              /\ InList(networks[op'.nw].variable_names, op'.var))
             => Declarations(calls') = {}]_vars

\* An aggregate that read the second variable of the second graph.
C10_Witness ==
    /\ op.name = "aggregate"
    /\ op.err = ""
    /\ Len(calls) = 1
    /\ VarUse(calls[1]) = <<1, 1>>
    /\ <<1, 2>> \in declared
    /\ <<0, 2>> \notin declared

-----------------------------------------------------------------------------
(* Properties of aggregate *)

\* Two strings are equal up to letter case.
SameIgnoringCase(a, b) ==
    /\ Len(a) = Len(b)
    /\ \A i \in 1..Len(a) : lower_char(a[i]) = lower_char(b[i])

\* The selector names one of the given tags, in some letter case.
NamesOneOf(sel, tags) == \E t \in tags : SameIgnoringCase(sel, t)

\* The one of the given tags that the selector names.
TagOf(sel, tags) == CHOOSE t \in tags : SameIgnoringCase(sel, t)

\* The impedance name is not one the call can use on this Network: it is
\* not among the constructor's names, or it is missing while the Network
\* has more than one.
ImpedanceUnknown(self, imp_name) ==
    \/ imp_name # None /\ ~InList(self.impedance_names, imp_name)
    \/ imp_name = None /\ Len(self.impedance_names) > 1

\* C4: aggregate fails when the aggregation kind, the decay kind, the
\* impedance name or the variable name is not recognized; the engine
\* aggregation is then not called and the Network's name lists are
\* unchanged.
C4_AggregateRejects ==
    [][(/\ op'.name = "aggregate"
        /\ \/ ~NamesOneOf(op'.type, DOMAIN AGGREGATIONS)
           \/ ~NamesOneOf(op'.decay, DOMAIN DECAYS)
           \/ ImpedanceUnknown(networks[op'.nw], op'.imp_name)
           \/ ~InList(networks[op'.nw].variable_names, op'.var))
       => /\ op'.err # ""
          /\ calls' = <<>>
          /\ networks' = networks]_vars

\* An aggregate with recognized selectors and a known variable that failed
\* because no impedance name was given on a Network with two impedances.
C4_Witness ==
    /\ op.name = "aggregate"
    /\ op.err = "AssertionError"
    /\ op.type = s_sum
    /\ op.decay = s_linear
    /\ op.imp_name = None
    /\ Len(networks[1].impedance_names) = 2
    /\ InList(networks[1].variable_names, op.var)
    /\ calls = <<>>

\* The values the docstring of aggregate documents, pandana.py:235-243
DocumentedTypes == {s_ave, s_sum, s_std, s_count}

DocumentedDecays == {s_linear, s_exponential, s_flat}

\* The engine tag each documented value stands for
TagOfDocumented ==
    (s_ave :> AGGREGATIONS[upper(s_ave)]) @@ (s_sum :> AGGREGATIONS[upper(s_sum)]) @@
    (s_std :> AGGREGATIONS[upper(s_std)]) @@ (s_count :> AGGREGATIONS[upper(s_count)]) @@
    (s_linear :> DECAYS[upper(s_linear)]) @@ (s_exponential :> DECAYS[upper(s_exp)]) @@
    (s_flat :> DECAYS[upper(s_flat)])

\* C5: aggregate accepts every documented value of type and decay, in any
\* letter case: no selector error is raised and, when the call reaches the
\* engine, it carries the tags of the documented values.
C5_DocumentedSelectorsAccepted ==
    (/\ op.name = "aggregate"
     /\ NamesOneOf(op.type, DocumentedTypes)
     /\ NamesOneOf(op.decay, DocumentedDecays))
    => /\ op.err # "KeyError"
       /\ op.err = "" =>
            /\ calls[1].args[3] = TagOfDocumented[TagOf(op.type, DocumentedTypes)]
            /\ calls[1].args[4] = TagOfDocumented[TagOf(op.decay, DocumentedDecays)]

-----------------------------------------------------------------------------
(* Properties of the POI categories *)

\* C7: initialize_poi_category binds a new name to the next unused index,
\* keeps every existing binding, and passes the name's index to the
\* engine; compute_nearest_pois fails without an engine call on a name
\* never initialized and queries the name's index otherwise.
C7_CategoryIndex ==
    [][/\ op'.name = "initialize_poi_category" =>
            /\ InList(CAT_NAME_TO_IND'.names, op'.var)
            /\ \A i \in 1..Len(CAT_NAME_TO_IND.names) :
                  CAT_NAME_TO_IND'.names[i] = CAT_NAME_TO_IND.names[i]
            /\ ~InList(CAT_NAME_TO_IND.names, op'.var) =>
                  ListIndex(CAT_NAME_TO_IND'.names, op'.var)
                     = Len(CAT_NAME_TO_IND.names)
            /\ calls' = <<Call("initialize_category",
                               <<ListIndex(CAT_NAME_TO_IND'.names, op'.var)>>)>>
       /\ op'.name = "compute_nearest_pois" =>
            IF InList(CAT_NAME_TO_IND.names, op'.var)
            THEN /\ Len(calls') = 1
                 /\ calls'[1].fn = "find_all_nearest_pois"
                 /\ calls'[1].args[2] = ListIndex(CAT_NAME_TO_IND.names, op'.var)
            ELSE op'.err # "" /\ calls' = <<>>]_vars

-----------------------------------------------------------------------------
(* Properties of the range cache *)

\* Least(S): the least number of a non-empty set
Least(S) == CHOOSE d \in S : \A e \in S : d <= e

\* The shortest distances from s over at most k more arcs, given those in
\* D (a function on the nodes; -1 where there is no path yet).
RECURSIVE Relax(_, _, _)
Relax(g, D, k) ==
    IF k = 0 THEN D
    ELSE Relax(g,
               [t \in NodesOf(g) |->
                  LET all == (IF D[t] >= 0 THEN {D[t]} ELSE {}) \cup
                             {D[a[1]] + a[3] :
                                a \in {b \in g.arcs : b[2] = t /\ D[b[1]] >= 0}}
                  IN IF all = {} THEN -1 ELSE Least(all)],
               k - 1)

PathDist(g, s) ==
    Relax(g, [t \in NodesOf(g) |-> IF t = s THEN 0 ELSE -1], Len(g.xy))

\* The shortest distances of every graph, from every source
ShortestDist == [g \in EngineGraphs |-> [s \in NodesOf(g) |-> PathDist(g, s)]]

\* The nodes within the cutoff of the source, with their distances
Within(g, source, cutoff) ==
    LET D == ShortestDist[g][source] IN
    {<<t, D[t]>> : t \in {u \in NodesOf(g) : D[u] >= 0 /\ D[u] <= cutoff}}

\* C9: only precompute changes a graph's range cache, and only that
\* graph's; an aggregate or query with a distance within the cached cutoff
\* is answered from the cache without a search, one beyond it (or with no
\* cache) is computed on demand; either way the cache stays as it was and
\* the answer is the set of nodes within the distance.
C9_CacheFrame ==
    [][/\ op'.name # "precompute" => range_cache' = range_cache
       /\ op'.name = "precompute" =>
            \A i \in 1..Len(range_cache) :
               i # op'.nw => range_cache'[i] = range_cache[i]
       /\ (op'.name \in {"aggregate", "query"} /\ op'.err = "" /\ op'.distance > 0) =>
            LET gno == networks[op'.nw].graph_no
                g == graphs[gno + 1]
            IN /\ answer'.graph = gno
               /\ answer'.recomputed = ~(op'.distance <= range_cache[gno + 1].cutoff)
               /\ \A i \in DOMAIN answer'.sets :
                    /\ answer'.sets[i] = Within(g, i - 1, op'.distance)
                    /\ ~answer'.recomputed =>
                         answer'.sets[i] \subseteq range_cache[gno + 1].sets[i]]_vars

\* An aggregate answered from a cache with a larger cutoff, whose sets it
\* had to trim.
C9_Witness ==
    /\ op.name = "aggregate"
    /\ op.err = ""
    /\ op.distance = 1
    /\ answer.graph = 1
    /\ ~answer.recomputed
    /\ range_cache[2].cutoff = 2
    /\ range_cache[1].cutoff = 0
    /\ \E i \in DOMAIN answer.sets : answer.sets[i] # range_cache[2].sets[i]

-----------------------------------------------------------------------------
(* Properties of the nearest-node mapping *)

Present(r) == r.x # <<>> /\ r.y # <<>>

\* The index labels of a result of get_node_ids, in order
IndexOf(out) == [i \in 1..Len(out) |-> out[i][1]]

\* The index labels of the rows whose x and y are present, in order
PresentIndex(rows) ==
    LET kept == SelectSeq(rows, Present) IN [i \in 1..Len(kept) |-> kept[i].idx]

\* C6: on a graph with a node, get_node_ids with the unbounded mapping
\* distance -1 returns a node for every row whose x and y are present, in
\* the rows' order (so the input's length and index when nothing is
\* missing); with a threshold, a row farther than it from every node is
\* not in the result; the result holds nodes only, never -1.
C6_MappingTotality ==
    op.name = "get_node_ids" =>
       LET g == graphs[map_in.graph_no + 1]
           md == map_in.mapping_distance
           rows == map_in.rows
       IN /\ map_in.graph_no = networks[op.nw].graph_no
          /\ \A k \in 1..Len(map_out) : map_out[k][2] \in NodesOf(g)
          /\ md = -1 =>
               /\ IndexOf(map_out) = PresentIndex(rows)
               /\ (\A i \in 1..Len(rows) : Present(rows[i])) =>
                     /\ Len(map_out) = Len(rows)
                     /\ \A i \in 1..Len(rows) : map_out[i][1] = rows[i].idx
          /\ md # -1 =>
               \A i \in 1..Len(rows) :
                  (/\ Present(rows[i])
                   /\ \A n \in NodesOf(g) :
                        Dist2(g, n, <<rows[i].x[1], rows[i].y[1]>>) > md * md)
                  => \A k \in 1..Len(map_out) : map_out[k][1] # rows[i].idx

\* Two rows with coordinates and a threshold: the first was beyond the
\* threshold and only the second is in the result.
C6_Witness ==
    /\ op.name = "get_node_ids"
    /\ map_in.mapping_distance = 1
    /\ Len(map_in.rows) = 2
    /\ \A i \in 1..2 : Present(map_in.rows[i])
    /\ Len(map_out) = 1
    /\ map_out[1][1] = 2

-----------------------------------------------------------------------------
(* Properties of the nearest-facility search *)

====
